---- MODULE Spec2Model ----
(***************************************************************************)
(* AggressiveTargetBot of rorosaga/cycles: the per-tick decision engine    *)
(* (flood fill, opponent prediction, move scoring) and the run loop that   *)
(* consumes one snapshot and submits one move per tick.  Two variants of   *)
(* the bot are in the repository: src/client/client_rorosaga.cpp (with     *)
(* exception handling) and an earlier copy of it (src/unnamed/part_000).   *)
(* They differ in updateState only, as far as behaviour goes: the try      *)
(* blocks that client_rorosaga.cpp puts around the pure functions enclose  *)
(* no operation that throws, so their catch branches are not modelled.     *)
(* getDirectionVector and GameState's grid queries are declared in utils.h *)
(* and api.h, outside the files at hand; they follow the documented        *)
(* convention: north is (0,-1), y grows southward, a cell is empty when    *)
(* nothing occupies it.                                                    *)
(***************************************************************************)
EXTENDS Integers, Sequences, FiniteSets, TLC

VARIABLES
    variant,      \* which of the two source files is running
    pc,           \* position of the process: loop test, updateState, sendMove, ended
    state,        \* AggressiveTargetBot::state, the last GameState received
    myPlayer,     \* AggressiveTargetBot::myPlayer
    consumed,     \* number of snapshots received from the transport
    sentCount,    \* number of moves handed to connection.sendMove
    tick,         \* locals of the sendMove call of the current tick
    exitStatus    \* how the process ended

vars == <<variant, pc, state, myPlayer, consumed, sentCount, tick, exitStatus>>

----------------------------------------------------------------------------
(* Bounds of the model *)

MaxTicks == 2        \* snapshots consumed in one run

(* Constants of the program *)

IntMax == 2147483647 \* std::numeric_limits<int>::max()
SpaceCap == 20       \* while (... && space < 20)
TightThreshold == 5  \* return space < 5
SafetyPenalty == 10  \* safetyScore -= 10
TrapReward == 5      \* trappingPotential += 5

----------------------------------------------------------------------------
(* Direction, getDirectionVector and the grid queries of GameState *)

Directions == <<"north", "east", "south", "west">>

DirSet == {"north", "east", "south", "west"}

getDirectionVector(d) ==
    CASE d = "north" -> <<0, -1>>
      [] d = "east"  -> <<1, 0>>
      [] d = "south" -> <<0, 1>>
      [] d = "west"  -> <<-1, 0>>

Plus(p, v) == <<p[1] + v[1], p[2] + v[2]>>

isInsideGrid(st, p) == p[1] >= 0 /\ p[1] < st.w /\ p[2] >= 0 /\ p[2] < st.h

isCellEmpty(st, p) == p \notin st.occ

\* the guard "state.isInsideGrid(p) && state.isCellEmpty(p)" used throughout
Free(st, p) == isInsideGrid(st, p) /\ isCellEmpty(st, p)

Abs(n) == IF n < 0 THEN -n ELSE n

calculateDistance(a, b) == Abs(a[1] - b[1]) + Abs(a[2] - b[2])

----------------------------------------------------------------------------
(* findNearestOpponent: index into state.players, 0 for nullptr *)

\* variant of NearestFrom that does not skip the bot's own player
RECURSIVE NearestFromAnyPlayer(_, _, _, _, _)
NearestFromAnyPlayer(st, me, i, best, minDistance) ==
    IF i > Len(st.players) THEN best
    ELSE LET player == st.players[i]
             distance == calculateDistance(me.position, player.position)
         IN  IF distance < minDistance
             THEN NearestFromAnyPlayer(st, me, i + 1, i, distance)
             ELSE NearestFromAnyPlayer(st, me, i + 1, best, minDistance)

RECURSIVE NearestFrom(_, _, _, _, _)
NearestFrom(st, me, i, best, minDistance) ==
    IF i > Len(st.players) THEN best
    ELSE LET player == st.players[i]
             distance == calculateDistance(me.position, player.position)
         IN  IF player.id # me.id /\ distance < minDistance
             THEN NearestFrom(st, me, i + 1, i, distance)
             ELSE NearestFrom(st, me, i + 1, best, minDistance)

findNearestOpponent(st, me) == NearestFrom(st, me, 1, 0, IntMax)

----------------------------------------------------------------------------
(* predictOpponentMove *)

\* variant of PredictFrom that does not ask whether the cell is in the grid
RECURSIVE PredictFromOffGrid(_, _, _)
PredictFromOffGrid(st, oppPos, i) ==
    IF i > Len(Directions) THEN oppPos
    ELSE LET newPos == Plus(oppPos, getDirectionVector(Directions[i]))
         IN  IF isCellEmpty(st, newPos) THEN newPos
             ELSE PredictFromOffGrid(st, oppPos, i + 1)

\* variant of PredictFrom that does not ask whether the cell is empty
RECURSIVE PredictFromAnyCell(_, _, _)
PredictFromAnyCell(st, oppPos, i) ==
    IF i > Len(Directions) THEN oppPos
    ELSE LET newPos == Plus(oppPos, getDirectionVector(Directions[i]))
         IN  IF isInsideGrid(st, newPos) THEN newPos
             ELSE PredictFromAnyCell(st, oppPos, i + 1)

\* the for loop over {north, east, south, west}, from the i-th direction on
RECURSIVE PredictFrom(_, _, _)
PredictFrom(st, oppPos, i) ==
    IF i > Len(Directions) THEN oppPos
    ELSE LET newPos == Plus(oppPos, getDirectionVector(Directions[i]))
         IN  IF isInsideGrid(st, newPos) /\ isCellEmpty(st, newPos) THEN newPos
             ELSE PredictFrom(st, oppPos, i + 1)

predictOpponentMove(st, oppPos) == PredictFrom(st, oppPos, 1)

----------------------------------------------------------------------------
(* calculateAvailableSpace: breadth-first flood fill with a queue and a     *)
(* visited set, stopped after SpaceCap dequeued cells.                       *)

\* variant of PushNeighbours without the visited test
RECURSIVE PushNeighboursRevisiting(_, _, _, _, _)
PushNeighboursRevisiting(st, current, i, toVisit, visited) ==
    IF i > Len(Directions) THEN [toVisit |-> toVisit, visited |-> visited]
    ELSE LET neighbor == Plus(current, getDirectionVector(Directions[i]))
         IN  IF Free(st, neighbor)
             THEN PushNeighboursRevisiting(st, current, i + 1,
                                 Append(toVisit, neighbor), visited \cup {neighbor})
             ELSE PushNeighboursRevisiting(st, current, i + 1, toVisit, visited)

\* the inner for loop: neighbours of current pushed in scan order
RECURSIVE PushNeighbours(_, _, _, _, _)
PushNeighbours(st, current, i, toVisit, visited) ==
    IF i > Len(Directions) THEN [toVisit |-> toVisit, visited |-> visited]
    ELSE LET neighbor == Plus(current, getDirectionVector(Directions[i]))
         IN  IF Free(st, neighbor) /\ neighbor \notin visited
             THEN PushNeighbours(st, current, i + 1,
                                 Append(toVisit, neighbor), visited \cup {neighbor})
             ELSE PushNeighbours(st, current, i + 1, toVisit, visited)

RECURSIVE FloodLoop(_, _, _, _)
FloodLoop(st, toVisit, visited, space) ==
    IF toVisit # <<>> /\ space < SpaceCap
    THEN LET r == PushNeighbours(st, Head(toVisit), 1, Tail(toVisit), visited)
         IN  FloodLoop(st, r.toVisit, r.visited, space + 1)
    ELSE space

calculateAvailableSpace(st, pos) == FloodLoop(st, <<pos>>, {pos}, 0)

\* variant of isInTightSpot with the threshold included
isInTightSpotInclusive(st, me) ==
    calculateAvailableSpace(st, me.position) <= TightThreshold

isInTightSpot(st, me) == calculateAvailableSpace(st, me.position) < TightThreshold

----------------------------------------------------------------------------
(* calculateSafety, calculateTrappingPotential *)

\* variant of calculateSafety that penalises out-of-grid neighbours only
calculateSafetyWallsOnly(st, pos) ==
    - SafetyPenalty *
      Cardinality({i \in 1..Len(Directions) :
          ~isInsideGrid(st, Plus(pos, getDirectionVector(Directions[i])))})

calculateSafety(st, pos) ==
    - SafetyPenalty *
      Cardinality({i \in 1..Len(Directions) :
          LET neighbor == Plus(pos, getDirectionVector(Directions[i]))
          IN  ~isInsideGrid(st, neighbor) \/ ~isCellEmpty(st, neighbor)})

\* pos is not read by the code either
calculateTrappingPotential(st, pos, predictedOpponentPos) ==
    TrapReward *
      Cardinality({i \in 1..Len(Directions) :
          LET newPos == Plus(predictedOpponentPos, getDirectionVector(Directions[i]))
          IN  ~isInsideGrid(st, newPos) \/ ~isCellEmpty(st, newPos)})

----------------------------------------------------------------------------
(* randomDirection: the first direction in scan order whose cell is free,   *)
(* north when there is none.                                                *)

\* variant of RandomFrom that does not ask whether the cell is empty
RECURSIVE RandomFromAnyCell(_, _, _)
RandomFromAnyCell(st, me, i) ==
    IF i > Len(Directions) THEN "north"
    ELSE LET newPos == Plus(me.position, getDirectionVector(Directions[i]))
         IN  IF isInsideGrid(st, newPos) THEN Directions[i]
             ELSE RandomFromAnyCell(st, me, i + 1)

RECURSIVE RandomFrom(_, _, _)
RandomFrom(st, me, i) ==
    IF i > Len(Directions) THEN "north"
    ELSE LET newPos == Plus(me.position, getDirectionVector(Directions[i]))
         IN  IF isInsideGrid(st, newPos) /\ isCellEmpty(st, newPos) THEN Directions[i]
             ELSE RandomFrom(st, me, i + 1)

randomDirection(st, me) == RandomFrom(st, me, 1)

----------------------------------------------------------------------------
(* decideBestMove *)

totalScore(st, newPos, target, predictedOpponentPos) ==
    LET safetyScore == calculateSafety(st, newPos)
        proximityScore == - calculateDistance(newPos, target)
        trappingScore == calculateTrappingPotential(st, newPos, predictedOpponentPos)
        spaceScore == calculateAvailableSpace(st, newPos)
    IN  safetyScore + proximityScore + trappingScore + spaceScore

\* variant of RankFrom that keeps occupied in-grid cells as candidates
RECURSIVE RankFromAnyCell(_, _, _, _, _)
RankFromAnyCell(st, me, target, predictedOpponentPos, i) ==
    IF i > Len(Directions) THEN <<>>
    ELSE LET newPos == Plus(me.position, getDirectionVector(Directions[i]))
             rest == RankFromAnyCell(st, me, target, predictedOpponentPos, i + 1)
         IN  IF isInsideGrid(st, newPos)
             THEN <<<<Directions[i], totalScore(st, newPos, target, predictedOpponentPos)>>>>
                  \o rest
             ELSE rest

\* the for loop filling rankedMoves: pairs <<direction, totalScore>> in scan order
RECURSIVE RankFrom(_, _, _, _, _)
RankFrom(st, me, target, predictedOpponentPos, i) ==
    IF i > Len(Directions) THEN <<>>
    ELSE LET newPos == Plus(me.position, getDirectionVector(Directions[i]))
             rest == RankFrom(st, me, target, predictedOpponentPos, i + 1)
         IN  IF isInsideGrid(st, newPos) /\ isCellEmpty(st, newPos)
             THEN <<<<Directions[i], totalScore(st, newPos, target, predictedOpponentPos)>>>>
                  \o rest
             ELSE rest

rankedMoves(st, me, target, predictedOpponentPos) ==
    RankFrom(st, me, target, predictedOpponentPos, 1)

\* variant of SortedFronts with the comparator turned round
SortedFrontsAscending(moves) ==
    {moves[i] : i \in {j \in 1..Len(moves) :
                          \A k \in 1..Len(moves) : ~(moves[k][2] < moves[j][2])}}

\* std::sort with the comparator a.second > b.second, then front(): the sorted
\* vector is a permutation of the input in which no element precedes one of
\* greater score, and std::sort does not promise the order of elements of equal
\* score, so the front is some element of maximal score.
SortedFronts(moves) ==
    {moves[i] : i \in {j \in 1..Len(moves) :
                          \A k \in 1..Len(moves) : ~(moves[k][2] > moves[j][2])}}

\* the directions decideBestMove may return
decideBestMove(st, me, target, predictedOpponentPos) ==
    LET moves == rankedMoves(st, me, target, predictedOpponentPos)
    IN  IF moves # <<>> THEN {front[1] : front \in SortedFronts(moves)}
        ELSE {randomDirection(st, me)}

----------------------------------------------------------------------------
(* The snapshots the transport may deliver.  A snapshot is a grid of w x h  *)
(* cells, the set occ of its occupied cells (trails and the players' own     *)
(* cells) and the list of players.                                           *)

Name == "bot"        \* the bot's display name, argv[1]

Self(p) == [id |-> 1, name |-> Name, position |-> p]
Opponent(p) == [id |-> 2, name |-> "opp", position |-> p]
Opponent2(p) == [id |-> 3, name |-> "opp2", position |-> p]

Cells(w, h) == (0..(w - 1)) \X (0..(h - 1))

PositionsOf(players) == {players[i].position : i \in 1..Len(players)}

Snapshot(w, h, trail, players) ==
    [w |-> w, h |-> h, occ |-> trail \cup PositionsOf(players), players |-> players]

\* player lists over the cells cs: the bot and one opponent, the bot alone,
\* an opponent alone (the bot is missing), nobody
PlayerLists(cs) ==
    {<<Self(b), Opponent(o)>> : <<b, o>> \in {c \in cs \X cs : c[1] # c[2]}}
    \cup {<<Self(b)>> : b \in cs}
    \cup {<<Opponent(o)>> : o \in cs}
    \cup {<<>>}

\* the bot and two opponents
PlayerLists3(cs) ==
    {<<Opponent(c[2]), Self(c[1]), Opponent2(c[3])>> :
        c \in {d \in cs \X cs \X cs : d[1] # d[2] /\ d[1] # d[3] /\ d[2] # d[3]}}

\* a trail fencing off the a x b cells at the grid's origin
Fence(a, b) == {<<a, y>> : y \in 0..(b - 1)} \cup {<<x, b>> : x \in 0..(a - 1)}

FenceShapes == {<<5, 5>>, <<2, 2>>, <<5, 1>>, <<5, 4>>}

\* small grid: every trail, one or two opponents
SmallSnapshots ==
    {Snapshot(3, 2, trail, players) :
        trail \in SUBSET Cells(3, 2), players \in PlayerLists(Cells(3, 2))}
    \cup {Snapshot(3, 2, trail, players) :
        trail \in {{}, {<<1, 0>>}, {<<1, 1>>}}, players \in PlayerLists3(Cells(3, 2))}

\* 5 x 5 grid (more cells than the flood fill visits): fenced regions
BigSnapshots ==
    {Snapshot(5, 5, Fence(f[1], f[2]) \cap Cells(5, 5), players) :
        f \in FenceShapes, players \in PlayerLists(Cells(5, 5))}

Snapshots == SmallSnapshots \cup BigSnapshots

\* a default-constructed GameState: receiveGameState has not been called yet
NoState == [w |-> 0, h |-> 0, occ |-> {}, players |-> <<>>]

\* the grid keeps its size and an occupied cell stays occupied
Follows(old, new) ==
    old = NoState \/ (new.w = old.w /\ new.h = old.h /\ old.occ \subseteq new.occ)

----------------------------------------------------------------------------
(* The process *)

NoPos == <<-1, -1>>

NoTick == [mode |-> "none", target |-> NoPos, predicted |-> NoPos, move |-> "none"]

\* Player myPlayer is default-constructed: empty name, position (0,0), and an
\* id member that has no initializer
Init ==
    /\ variant \in {"client_rorosaga", "part_000"}
    /\ pc = "loop"
    /\ state = NoState
    /\ myPlayer \in {[id |-> i, name |-> "", position |-> <<0, 0>>] : i \in {0, 1, 2}}
    /\ consumed = 0
    /\ sentCount = 0
    /\ tick = NoTick
    /\ exitStatus = "running"

\* run: while (connection.isActive()) -- the transport decides
RunLoopActive(limit) ==
    /\ pc = "loop"
    /\ consumed < limit
    /\ pc' = "updateState"
    /\ UNCHANGED <<variant, state, myPlayer, consumed, sentCount, tick, exitStatus>>

\* the transport reports inactive: run returns and main returns 0
RunLoopInactive ==
    /\ pc = "loop"
    /\ pc' = "done"
    /\ exitStatus' = "return0"
    /\ UNCHANGED <<variant, state, myPlayer, consumed, sentCount, tick>>

\* variant of UpdateState in which both files throw when the bot is missing
UpdateStateThrowing(snapshots) ==
    /\ pc = "updateState"
    /\ \E s \in snapshots :
        /\ (state = [w |-> 0, h |-> 0, occ |-> {}, players |-> <<>>]
              \/ (s.w = state.w /\ s.h = state.h /\ state.occ \subseteq s.occ))
        /\ state' = s
        /\ IF \E i \in 1..Len(s.players) : s.players[i].name = Name
           THEN /\ myPlayer' = s.players[CHOOSE i \in 1..Len(s.players) :
                                   /\ s.players[i].name = Name
                                   /\ \A j \in 1..(i - 1) : s.players[j].name # Name]
                /\ pc' = "sendMove"
                /\ UNCHANGED exitStatus
           ELSE pc' = "done" /\ exitStatus' = "terminate" /\ UNCHANGED myPlayer
    /\ consumed' = consumed + 1
    /\ tick' = NoTick
    /\ UNCHANGED <<variant, sentCount>>

\* index of the first player whose name is the bot's, 0 when there is none
RECURSIVE FindSelf(_, _)
FindSelf(players, i) ==
    IF i > Len(players) THEN 0
    ELSE IF players[i].name = Name THEN i ELSE FindSelf(players, i + 1)

\* updateState.  client_rorosaga.cpp throws BotException when no player has the
\* bot's name, and nothing up to main catches it; part_000 goes on with the
\* myPlayer it had.
UpdateState(snapshots) ==
    /\ pc = "updateState"
    /\ \E s \in snapshots :
        /\ Follows(state, s)
        /\ state' = s
        /\ LET i == FindSelf(s.players, 1)
           IN  IF i # 0
               THEN myPlayer' = s.players[i] /\ pc' = "sendMove" /\ UNCHANGED exitStatus
               ELSE IF variant = "client_rorosaga"
                    THEN pc' = "done" /\ exitStatus' = "terminate" /\ UNCHANGED myPlayer
                    ELSE pc' = "sendMove" /\ UNCHANGED <<myPlayer, exitStatus>>
    /\ consumed' = consumed + 1
    /\ tick' = NoTick
    /\ UNCHANGED <<variant, sentCount>>

\* variant of sendMove in which the escape branch falls through to the normal
\* one, so that a tick in a tight spot submits two moves
SendMoveFallingThrough ==
    /\ pc = "sendMove"
    /\ LET nearest == findNearestOpponent(state, myPlayer)
       IN  IF nearest = 0
           THEN /\ pc' = "done"
                /\ exitStatus' = "exit0"
                /\ tick' = [NoTick EXCEPT !.mode = "Terminal"]
                /\ UNCHANGED sentCount
           ELSE /\ LET nearestOpponent == state.players[nearest]
                       predictedOpponentPos ==
                           predictOpponentMove(state, nearestOpponent.position)
                   IN  \E move \in decideBestMove(state, myPlayer,
                                       nearestOpponent.position, predictedOpponentPos) :
                           tick' = [mode |-> "Normal",
                                    target |-> nearestOpponent.position,
                                    predicted |-> predictedOpponentPos,
                                    move |-> move]
                /\ sentCount' = sentCount +
                       (IF isInTightSpot(state, myPlayer) THEN 2 ELSE 1)
                /\ pc' = "loop"
                /\ UNCHANGED exitStatus
    /\ UNCHANGED <<variant, state, myPlayer, consumed>>

\* sendMove: exit(0) when findNearestOpponent returns nullptr; otherwise one
\* connection.sendMove, of randomDirection() in a tight spot (escape mode) and of
\* decideBestMove(...) if not.
SendMove ==
    /\ pc = "sendMove"
    /\ LET nearest == findNearestOpponent(state, myPlayer)
       IN  IF nearest = 0
           THEN /\ pc' = "done"
                /\ exitStatus' = "exit0"
                /\ tick' = [NoTick EXCEPT !.mode = "Terminal"]
                /\ UNCHANGED sentCount
           ELSE /\ IF isInTightSpot(state, myPlayer)
                   THEN tick' = [NoTick EXCEPT !.mode = "Escape",
                                               !.move = randomDirection(state, myPlayer)]
                   ELSE LET nearestOpponent == state.players[nearest]
                            predictedOpponentPos ==
                                predictOpponentMove(state, nearestOpponent.position)
                        IN  \E move \in decideBestMove(state, myPlayer,
                                            nearestOpponent.position, predictedOpponentPos) :
                                tick' = [mode |-> "Normal",
                                         target |-> nearestOpponent.position,
                                         predicted |-> predictedOpponentPos,
                                         move |-> move]
                /\ sentCount' = sentCount + 1
                /\ pc' = "loop"
                /\ UNCHANGED exitStatus
    /\ UNCHANGED <<variant, state, myPlayer, consumed>>


\* runs of up to MaxTicks ticks on the small grid
Next ==
    \/ RunLoopActive(MaxTicks)
    \/ RunLoopInactive
    \/ UpdateState(SmallSnapshots)
    \/ SendMove

Spec == Init /\ [][Next]_vars

\* the first tick of a run, on every snapshot of both grids
NextFirstTick ==
    \/ RunLoopActive(1)
    \/ RunLoopInactive
    \/ UpdateState(Snapshots)
    \/ SendMove

SpecFirstTick == Init /\ [][NextFirstTick]_vars

----------------------------------------------------------------------------
(* Vocabulary of the properties *)

GridCells(st) == Cells(st.w, st.h)

Neighbour(p, d) == Plus(p, getDirectionVector(d))

\* the directions that lead from p to an in-grid, empty cell
FreeDirs(st, p) == {d \in DirSet : Free(st, Neighbour(p, d))}

\* position of d in the scan order north, east, south, west
ScanIndex(d) == CHOOSE i \in 1..Len(Directions) : Directions[i] = d

\* the first direction of ds in scan order (ds not empty)
FirstInScan(ds) == CHOOSE d \in ds : \A e \in ds : ScanIndex(d) <= ScanIndex(e)

\* sendMove has sent a move in the current tick
Moved == tick.mode \in {"Escape", "Normal"}

\* the origin together with the empty in-grid cells joined to it by a chain of
\* 4-adjacent empty in-grid cells, grown ring by ring
Adjacent(c) ==
    {<<c[1], c[2] - 1>>, <<c[1] + 1, c[2]>>, <<c[1], c[2] + 1>>, <<c[1] - 1, c[2]>>}

RECURSIVE Grow(_, _, _)
Grow(st, seen, frontier) ==
    IF frontier = {} THEN seen
    ELSE LET ring == {c \in UNION {Adjacent(f) : f \in frontier} :
                         c \in GridCells(st) /\ c \notin st.occ /\ c \notin seen}
         IN  Grow(st, seen \cup ring, ring)

Reach(st, origin) == Grow(st, {origin}, {origin})

Min(a, b) == IF a < b THEN a ELSE b

\* inputs on which the functions are also evaluated directly: every cell of the
\* small grid
Probes(st) == IF st.w = 3 /\ st.h = 2 THEN GridCells(st) ELSE {}

----------------------------------------------------------------------------
\* C1: whenever at least one of the four cells next to the bot is in-grid and
\* empty, the direction decideBestMove returns leads from the bot's position to
\* an in-grid, empty cell -- for the call sendMove makes, and for every target
\* and predicted opponent position on the small grid.
C1_DecideBestMoveLegal ==
    /\ (tick.mode = "Normal" /\ FreeDirs(state, myPlayer.position) # {})
           => Free(state, Neighbour(myPlayer.position, tick.move))
    /\ (pc = "sendMove" /\ FreeDirs(state, myPlayer.position) # {})
           => \A target \in Probes(state), predicted \in Probes(state) :
                  \A d \in decideBestMove(state, myPlayer, target, predicted) :
                      Free(state, Neighbour(myPlayer.position, d))

\* decideBestMove has returned a move while one of the bot's neighbours was
\* blocked and another free
C1_Witness ==
    /\ tick.mode = "Normal"
    /\ FreeDirs(state, myPlayer.position) \notin {{}, DirSet}
    /\ Free(state, Neighbour(myPlayer.position, tick.move))

\* C2: for every in-grid origin, calculateAvailableSpace(origin) is
\* min(20, N), N the number of cells in the origin's region (the origin plus the
\* empty in-grid cells reachable from it through 4-adjacent empty in-grid
\* cells); so it is at least 1 and at most 20.  Evaluated on every snapshot
\* consumed: in part_000 each of them reaches sendMove, and the function is the
\* same text in both files.
C2_AvailableSpaceIsCappedRegion ==
    (pc = "sendMove" /\ variant = "part_000") =>
        \A origin \in GridCells(state) :
            LET space == calculateAvailableSpace(state, origin)
            IN  /\ space = Min(20, Cardinality(Reach(state, origin)))
                /\ space >= 1
                /\ space <= 20

\* a snapshot in which one origin's region is larger than the cap and the flood
\* fill stops at 20, and another origin's region is smaller and is counted whole
C2_Witness ==
    /\ pc = "sendMove"
    /\ \E origin \in GridCells(state) :
           /\ Cardinality(Reach(state, origin)) > 20
           /\ calculateAvailableSpace(state, origin) = 20
    /\ \E origin \in GridCells(state) :
           /\ Cardinality(Reach(state, origin)) \in 2..19
           /\ calculateAvailableSpace(state, origin) = Cardinality(Reach(state, origin))

\* C3: for every opponent position p, predictOpponentMove returns the first of
\* p+north, p+east, p+south, p+west that is in-grid and empty; it returns p itself
\* only when all four are out-of-grid or occupied, and otherwise the result is an
\* in-grid, empty neighbour of p -- for every cell of the snapshot, and for the
\* call sendMove makes on the nearest opponent.
PredictedAsClaimed(st, p, r) ==
    IF FreeDirs(st, p) = {}
    THEN r = p
    ELSE /\ r = Neighbour(p, FirstInScan(FreeDirs(st, p)))
         /\ r # p
         /\ r \in GridCells(st)
         /\ r \notin st.occ
         /\ r \in Adjacent(p)

C3_PredictFirstFreeNeighbour ==
    /\ pc = "sendMove" =>
           \A p \in GridCells(state) :
               PredictedAsClaimed(state, p, predictOpponentMove(state, p))
    /\ tick.mode = "Normal" => PredictedAsClaimed(state, tick.target, tick.predicted)

\* sendMove has predicted the move of an opponent whose north neighbour is
\* blocked and who has a free neighbour later in the scan order
C3_Witness ==
    /\ tick.mode = "Normal"
    /\ "north" \notin FreeDirs(state, tick.target)
    /\ FreeDirs(state, tick.target) # {}
    /\ tick.predicted = Neighbour(tick.target, FirstInScan(FreeDirs(state, tick.target)))

\* C4: in every tick in which sendMove finds an opponent, the bot is in Escape
\* mode exactly when calculateAvailableSpace(myPlayer.position) < 5 (4 is Escape,
\* 5 is not); in Escape the direction sent is the first of north, east, south,
\* west whose cell is in-grid and empty, north when there is none, and
\* decideBestMove is not called (no target, no prediction).
C4_EscapeIffSpaceBelowFive ==
    Moved =>
        LET space == calculateAvailableSpace(state, myPlayer.position)
            free == FreeDirs(state, myPlayer.position)
        IN  /\ tick.mode = "Escape" <=> space < 5
            /\ space = 4 => tick.mode = "Escape"
            /\ space = 5 => tick.mode = "Normal"
            /\ tick.mode = "Escape" =>
                   /\ tick.move = IF free = {} THEN "north" ELSE FirstInScan(free)
                   /\ tick.target = NoPos
                   /\ tick.predicted = NoPos

\* a tick in Escape mode with exactly 4 cells of space and a blocked north
C4_Witness ==
    /\ tick.mode = "Escape"
    /\ calculateAvailableSpace(state, myPlayer.position) = 4
    /\ "north" \notin FreeDirs(state, myPlayer.position)
    /\ tick.move # "north"

----------------------------------------------------------------------------
(* The run loop *)

\* no player of the snapshot has an id other than the bot's
NoOtherPlayer == \A i \in 1..Len(state.players) : state.players[i].id = myPlayer.id

\* the snapshot holds a player with the bot's name
SelfPresent == \E i \in 1..Len(state.players) : state.players[i].name = Name

\* the snapshot consumed last has been dealt with
Handled == consumed > 0 /\ pc # "sendMove"

\* C5 as stated: a consumed snapshot with no player whose id differs from the
\* bot's gets no move, is the last one consumed, and the run ends in Terminal
\* with exit code 0.
C5_Original ==
    (Handled /\ NoOtherPlayer) =>
        /\ pc = "done"
        /\ exitStatus = "exit0"
        /\ tick.mode = "Terminal"
        /\ sentCount = consumed - 1

\* C5, amended: a consumed snapshot that holds the bot's own player and no player
\* whose id differs from the bot's gets no move, is the last one consumed, and
\* the run ends in Terminal with exit code 0.
C5_OnlySelfExitsZero ==
    (Handled /\ SelfPresent /\ NoOtherPlayer) =>
        /\ pc = "done"
        /\ exitStatus = "exit0"
        /\ tick.mode = "Terminal"
        /\ sentCount = consumed - 1

\* the second snapshot held the bot alone and the run has ended with exit(0),
\* one move sent in all
C5_Witness ==
    /\ SelfPresent
    /\ NoOtherPlayer
    /\ consumed = 2
    /\ sentCount = 1
    /\ pc = "done"
    /\ exitStatus = "exit0"

\* the moves sendMove may submit for a snapshot and a recorded player
MovesFor(st, me) ==
    IF isInTightSpot(st, me) THEN {randomDirection(st, me)}
    ELSE LET opp == st.players[findNearestOpponent(st, me)]
         IN  decideBestMove(st, me, opp.position, predictOpponentMove(st, opp.position))

C7_Original ==
    pc = "done" =>
        \/ exitStatus = "return0"
        \/ exitStatus = "exit0" /\ findNearestOpponent(state, myPlayer) = 0

\* C7, amended: the run ends by the transport reporting inactive at the loop
\* test, by a snapshot without opponents, or -- in client_rorosaga.cpp only -- by a
\* snapshot without a player of the bot's name, on which updateState throws; in
\* part_000 such a snapshot does not end the loop.
C7_LoopEndings ==
    /\ pc = "done" =>
           \/ exitStatus = "return0" /\ sentCount = consumed
           \/ exitStatus = "exit0" /\ findNearestOpponent(state, myPlayer) = 0
           \/ /\ exitStatus = "terminate"
              /\ variant = "client_rorosaga"
              /\ ~SelfPresent
              /\ consumed = sentCount + 1
    /\ pc # "done" => exitStatus = "running"
    /\ (variant = "part_000" /\ Handled /\ ~SelfPresent /\ ~NoOtherPlayer)
           => (Moved /\ exitStatus \in {"running", "return0"})

\* client_rorosaga.cpp has ended on a second snapshot, one with an opponent and
\* without the bot
C7_Witness ==
    /\ variant = "client_rorosaga"
    /\ pc = "done"
    /\ exitStatus = "terminate"
    /\ consumed = 2
    /\ ~NoOtherPlayer

----------------------------------------------------------------------------
(* The end-to-end scenario: 5 x 5 grid, the bot at (2,2), one opponent at    *)
(* (2,0), every other cell empty.                                            *)

Scenario ==
    /\ state = Snapshot(5, 5, {}, <<Self(<<2, 2>>), Opponent(<<2, 0>>)>>)
    /\ myPlayer = Self(<<2, 2>>)

\* C8 as stated: in the scenario predictOpponentMove returns (2,1) for the
\* opponent.
C8_Original ==
    (Scenario /\ tick.mode = "Normal") => tick.predicted = <<2, 1>>

\* C8, amended: in the scenario predictOpponentMove returns (3,0) for the
\* opponent: north of (2,0) is (2,-1), outside the grid, and east is the first
\* direction of the scan whose cell is in-grid and empty.
C8_ScenarioPredictsEast ==
    /\ (Scenario /\ tick.mode = "Normal") =>
           /\ tick.target = <<2, 0>>
           /\ tick.predicted = <<3, 0>>
    /\ (Scenario /\ pc = "sendMove") => predictOpponentMove(state, <<2, 0>>) = <<3, 0>>

\* the scenario's tick has run and the prediction is the opponent's east cell
C8_Witness ==
    /\ Scenario
    /\ tick.mode = "Normal"
    /\ tick.predicted = Neighbour(<<2, 0>>, "east")

\* C9 as stated: the scenario's tick runs in Normal mode and decideBestMove
\* with target (2,0) returns north.
C9_Original ==
    (Scenario /\ tick.mode # "none") =>
        /\ tick.mode = "Normal"
        /\ tick.target = <<2, 0>>
        /\ tick.move = "north"

\* C9, amended: the scenario's tick runs in Normal mode and decideBestMove with
\* target (2,0) returns east, south or west, never north: north is nearest to
\* the target but two of its neighbours are occupied, so it totals 9 against
\* 17 for each of the other three.
C9_ScenarioAvoidsNorth ==
    (Scenario /\ tick.mode # "none") =>
        /\ tick.mode = "Normal"
        /\ tick.target = <<2, 0>>
        /\ tick.move \in {"east", "south", "west"}
        /\ totalScore(state, <<2, 1>>, tick.target, tick.predicted) = 9
        /\ \A d \in {"east", "south", "west"} :
               totalScore(state, Neighbour(<<2, 2>>, d), tick.target, tick.predicted) = 17
        /\ \A d \in DirSet :
               calculateDistance(Neighbour(<<2, 2>>, "north"), tick.target)
                   <= calculateDistance(Neighbour(<<2, 2>>, d), tick.target)

\* the scenario's tick has run in Normal mode and sent a move other than north
C9_Witness ==
    /\ Scenario
    /\ tick.mode = "Normal"
    /\ tick.move # "north"
    /\ FreeDirs(state, myPlayer.position) = DirSet

\* C10: decideBestMove returns a legal candidate of maximal total score, and
\* among several candidates of maximal score the first in the scan order
\* north, east, south, west.
C10_MaximalScoreFirstInScan ==
    tick.mode = "Normal" =>
        LET Score(d) == totalScore(state, Neighbour(myPlayer.position, d),
                                   tick.target, tick.predicted)
            legal == FreeDirs(state, myPlayer.position)
            best == {d \in legal : \A e \in legal : Score(e) <= Score(d)}
        IN  /\ tick.move \in best
            /\ tick.move = FirstInScan(best)

----------------------------------------------------------------------------
\* C11: in every tick, in Escape and in Normal mode, if one of the four cells
\* next to the bot's recorded position is in-grid and empty in the current
\* snapshot, the direction sent leads to an in-grid, empty cell; a move into a
\* blocked or out-of-grid cell is sent only when all four are blocked, and it is
\* north, sent in Escape mode; Normal mode means at least 5 cells of space, so
\* decideBestMove's candidate list is never empty there.
C11_SentMoveLegalWhenPossible ==
    Moved =>
        LET free == FreeDirs(state, myPlayer.position)
            dest == Neighbour(myPlayer.position, tick.move)
        IN  /\ free # {} => (dest \in GridCells(state) /\ dest \notin state.occ)
            /\ ~(dest \in GridCells(state) /\ dest \notin state.occ) =>
                   /\ free = {}
                   /\ tick.move = "north"
                   /\ tick.mode = "Escape"
            /\ tick.mode = "Normal" =>
                   /\ calculateAvailableSpace(state, myPlayer.position) >= 5
                   /\ free # {}
                   /\ rankedMoves(state, myPlayer, tick.target, tick.predicted) # <<>>

\* an Escape tick in which a single neighbour of the bot was free, not the
\* north one, and the move sent leads to it
C11_Witness ==
    /\ tick.mode = "Escape"
    /\ Cardinality(FreeDirs(state, myPlayer.position)) = 1
    /\ "north" \notin FreeDirs(state, myPlayer.position)
    /\ tick.move \in FreeDirs(state, myPlayer.position)

====
